---- MODULE Spec2Model ----
(***************************************************************************)
(* hrs: a time-log calculator.  The library (src/src/lib.rs) finds the     *)
(* block of lines of one day in a log, parses each entry line              *)
(* "START-END [tag] description" into a duration grouped by tag, and       *)
(* reports per-tag totals and the day's total against a 7h30m day.         *)
(*                                                                         *)
(* Text is modelled as a sequence of one-character strings, so that        *)
(* prefixes, slices and byte order are computed, not assumed.  A file's    *)
(* content is the sequence of lines that content.lines() yields.  Times    *)
(* are minutes since midnight, durations signed minutes (every time the    *)
(* program handles has zero seconds).                                      *)
(***************************************************************************)
EXTENDS Integers, Sequences, FiniteSets, TLC

VARIABLES call, pc, content, date, lines, k, prev_tag, durations_by_tag,
          out, summary, duration_total, report

vars == <<call, pc, content, date, lines, k, prev_tag, durations_by_tag,
          out, summary, duration_total, report>>

(***************************************************************************)
(* Bounds of the model.                                                    *)
(***************************************************************************)
\* longest content handed to find_and_collect_day, in lines
MaxContent == 4
\* longest line sequence handed to process_lines directly
MaxLines == 3
\* write_total / print_total_and_diff are called directly with totals in
\* -MaxTotal .. MaxTotal minutes
MaxTotal == 600

(***************************************************************************)
(* Text helpers.                                                           *)
(***************************************************************************)
\* the byte of an ASCII character: String::cmp orders by bytes
ByteTable ==
    ("\t" :> 9) @@ (" " :> 32) @@ ("!" :> 33) @@ ("\"" :> 34)
    @@ ("#" :> 35) @@ ("$" :> 36) @@ ("%" :> 37) @@ ("&" :> 38)
    @@ ("'" :> 39) @@ ("(" :> 40) @@ (")" :> 41) @@ ("*" :> 42)
    @@ ("+" :> 43) @@ ("," :> 44) @@ ("-" :> 45) @@ ("." :> 46)
    @@ ("/" :> 47) @@ ("0" :> 48) @@ ("1" :> 49) @@ ("2" :> 50)
    @@ ("3" :> 51) @@ ("4" :> 52) @@ ("5" :> 53) @@ ("6" :> 54)
    @@ ("7" :> 55) @@ ("8" :> 56) @@ ("9" :> 57) @@ (":" :> 58)
    @@ (";" :> 59) @@ ("<" :> 60) @@ ("=" :> 61) @@ (">" :> 62)
    @@ ("?" :> 63) @@ ("@" :> 64) @@ ("A" :> 65) @@ ("B" :> 66)
    @@ ("C" :> 67) @@ ("D" :> 68) @@ ("E" :> 69) @@ ("F" :> 70)
    @@ ("G" :> 71) @@ ("H" :> 72) @@ ("I" :> 73) @@ ("J" :> 74)
    @@ ("K" :> 75) @@ ("L" :> 76) @@ ("M" :> 77) @@ ("N" :> 78)
    @@ ("O" :> 79) @@ ("P" :> 80) @@ ("Q" :> 81) @@ ("R" :> 82)
    @@ ("S" :> 83) @@ ("T" :> 84) @@ ("U" :> 85) @@ ("V" :> 86)
    @@ ("W" :> 87) @@ ("X" :> 88) @@ ("Y" :> 89) @@ ("Z" :> 90)
    @@ ("[" :> 91) @@ ("]" :> 93) @@ ("^" :> 94) @@ ("_" :> 95)
    @@ ("a" :> 97) @@ ("b" :> 98) @@ ("c" :> 99) @@ ("d" :> 100)
    @@ ("e" :> 101) @@ ("f" :> 102) @@ ("g" :> 103) @@ ("h" :> 104)
    @@ ("i" :> 105) @@ ("j" :> 106) @@ ("k" :> 107) @@ ("l" :> 108)
    @@ ("m" :> 109) @@ ("n" :> 110) @@ ("o" :> 111) @@ ("p" :> 112)
    @@ ("q" :> 113) @@ ("r" :> 114) @@ ("s" :> 115) @@ ("t" :> 116)
    @@ ("u" :> 117) @@ ("v" :> 118) @@ ("w" :> 119) @@ ("x" :> 120)
    @@ ("y" :> 121) @@ ("z" :> 122) @@ ("{" :> 123) @@ ("|" :> 124)
    @@ ("}" :> 125) @@ ("~" :> 126)

ByteOf(c) == ByteTable[c]

\* the regex class [0-9]
Digits == {"0", "1", "2", "3", "4", "5", "6", "7", "8", "9"}

DigitVal(c) == ByteOf(c) - 48

DigitChar(n) == <<"0", "1", "2", "3", "4", "5", "6", "7", "8", "9">>[n + 1]

\* the regex class [0-9\.]
TimeChars == Digits \union {"."}

\* the regex class \s, over the characters of the model
Spaces == {" ", "\t"}

\* str::starts_with
StartsWith(s, p) == Len(s) >= Len(p) /\ SubSeq(s, 1, Len(p)) = p

\* &s[n..]: the text after the first n bytes
SliceFrom(s, n) == SubSeq(s, n + 1, Len(s))

\* str::contains(char)
Contains(s, c) == \E i \in 1..Len(s) : s[i] = c

\* the length of the run of characters of class cls, from position p
RunLen(s, p, cls) ==
    IF p > Len(s) THEN 0
    ELSE CHOOSE n \in 0..(Len(s) + 1 - p) :
             /\ \A j \in p..(p + n - 1) : s[j] \in cls
             /\ (p + n > Len(s) \/ s[p + n] \notin cls)

\* String::cmp(a, b) = Less: byte-wise lexicographic order
StrLess(a, b) ==
    \E i \in 1..Len(b) :
        /\ i - 1 <= Len(a)
        /\ \A j \in 1..(i - 1) : a[j] = b[j]
        /\ (i > Len(a) \/ ByteOf(a[i]) < ByteOf(b[i]))

Abs(x) == IF x < 0 THEN -x ELSE x

\* Option<String>: None is the empty tuple, Some(t) the one-element tuple
None == <<>>
Some(t) == <<t>>

(***************************************************************************)
(* find_and_collect_day                                                    *)
(***************************************************************************)
\* line == date || line.starts_with(&format!("{} ", date))
IsHeader(line, d) == line = d \/ StartsWith(line, d \o <<" ">>)

\* a variant that ends the day at a line of whitespace too
RECURSIVE CollectFromTrimmed(_, _, _, _, _)
CollectFromTrimmed(c, d, i, in_day, acc) ==
    IF i > Len(c) THEN acc
    ELSE IF ~in_day
         THEN IF IsHeader(c[i], d)
              THEN CollectFromTrimmed(c, d, i + 1, TRUE, Append(acc, c[i]))
              ELSE CollectFromTrimmed(c, d, i + 1, FALSE, acc)
         ELSE IF \A x \in 1..Len(c[i]) : c[i][x] \in Spaces
              THEN acc
              ELSE CollectFromTrimmed(c, d, i + 1, TRUE, Append(acc, c[i]))

\* a variant that leaves the day at an empty line and goes on, so that a
\* later header starts a second block
RECURSIVE CollectFromRestart(_, _, _, _, _)
CollectFromRestart(c, d, i, in_day, acc) ==
    IF i > Len(c) THEN acc
    ELSE IF ~in_day
         THEN IF IsHeader(c[i], d)
              THEN CollectFromRestart(c, d, i + 1, TRUE, Append(acc, c[i]))
              ELSE CollectFromRestart(c, d, i + 1, FALSE, acc)
         ELSE IF c[i] = <<>>
              THEN CollectFromRestart(c, d, i + 1, FALSE, acc)
              ELSE CollectFromRestart(c, d, i + 1, TRUE, Append(acc, c[i]))

\* the for loop over content.lines(): i is the next line, in_day and acc the
\* loop's in_day and lines_in_day
RECURSIVE CollectFrom(_, _, _, _, _)
CollectFrom(c, d, i, in_day, acc) ==
    IF i > Len(c) THEN acc
    ELSE IF ~in_day
         THEN IF IsHeader(c[i], d)
              THEN CollectFrom(c, d, i + 1, TRUE, Append(acc, c[i]))
              ELSE CollectFrom(c, d, i + 1, FALSE, acc)
         ELSE IF c[i] = <<>>
              THEN acc
              ELSE CollectFrom(c, d, i + 1, TRUE, Append(acc, c[i]))

find_and_collect_day(c, d) == CollectFrom(c, d, 1, FALSE, <<>>)

(***************************************************************************)
(* process_line: LINE_RE                                                   *)
(*   ^([0-9\.]{1,5})-([0-9\.]{1,5})\s+(\[.*?\])?.*$                        *)
(* The pattern is anchored and '-' and whitespace are outside [0-9\.], so  *)
(* each time token is the whole run of [0-9\.] characters, which must be   *)
(* 1 to 5 long.  \s+ is greedy and what follows it can always match, so it *)
(* takes the whole run of whitespace; group 3 then takes part when the     *)
(* next character is '[' and a ']' follows, and ends at the first ']'.     *)
(***************************************************************************)
StartLen(line) == RunLen(line, 1, TimeChars)

EndLen(line) == RunLen(line, StartLen(line) + 2, TimeChars)

\* position of the first character after "start-end"
AfterRange(line) == StartLen(line) + EndLen(line) + 2

SpaceLen(line) == RunLen(line, AfterRange(line), Spaces)

\* LINE_RE.captures(line) is Some
IsMatch(line) ==
    /\ StartLen(line) \in 1..5
    /\ StartLen(line) + 1 <= Len(line)
    /\ line[StartLen(line) + 1] = "-"
    /\ EndLen(line) \in 1..5
    /\ SpaceLen(line) >= 1

\* caps[1], caps[2]
CapStart(line) == SubSeq(line, 1, StartLen(line))

CapEnd(line) == SubSeq(line, StartLen(line) + 2, StartLen(line) + 1 + EndLen(line))

\* position of the first character after the whitespace
AfterSpace(line) == AfterRange(line) + SpaceLen(line)

\* caps.get(3) is Some
HasBracket(line) ==
    /\ AfterSpace(line) <= Len(line)
    /\ line[AfterSpace(line)] = "["
    /\ \E q \in (AfterSpace(line) + 1)..Len(line) : line[q] = "]"

\* a variant with a greedy .* in the group: up to the last "]"
CapBracketGreedy(line) ==
    LET p == AfterSpace(line)
        q == CHOOSE q \in (p + 1)..Len(line) :
                 /\ line[q] = "]"
                 /\ \A r \in (q + 1)..Len(line) : line[r] # "]"
    IN  SubSeq(line, p, q)

\* caps.get(3): "[", then as few characters as possible, then "]"
CapBracket(line) ==
    LET p == AfterSpace(line)
        q == CHOOSE q \in (p + 1)..Len(line) :
                 /\ line[q] = "]"
                 /\ \A r \in (p + 1)..(q - 1) : line[r] # "]"
    IN  SubSeq(line, p, q)

\* the match of lines 59-63: group 3, or the text after
\* format!("{}-{} ", start, end).len() bytes
RawTag(line) ==
    IF HasBracket(line)
    THEN CapBracket(line)
    ELSE SliceFrom(line, Len(CapStart(line) \o <<"-">> \o CapEnd(line) \o <<" ">>))

Marker == <<"-", "\"", "-">>

\* a variant without the carry-over
ResolveTagNoCarry(tag, pt) == tag

\* lines 64-72: the tag the duration is recorded under
ResolveTag(tag, pt) ==
    IF pt # None /\ StartsWith(tag, Marker) THEN pt[1] ELSE tag

\* a variant that stores every tag, a marker too
NextPrevTagAlways(tag, pt) == Some(tag)

\* lines 64-72: prev_tag after the line
NextPrevTag(tag, pt) ==
    IF pt # None /\ StartsWith(tag, Marker) THEN pt ELSE Some(tag)

\* with_mins
with_mins(time) == IF ~Contains(time, ".") THEN time \o <<".", "0", "0">> ELSE time

(***************************************************************************)
(* NaiveTime::parse_from_str(time, "%H.%M"): one or two digits (as many as *)
(* there are, at most two), the literal '.', one or two digits, and the    *)
(* end of the text; hour at most 23, minute at most 59.  The result is     *)
(* Ok(minutes since midnight) or Err.                                      *)
(***************************************************************************)
NumLen(s, p) == LET n == RunLen(s, p, Digits) IN IF n > 2 THEN 2 ELSE n

NumVal(s, p, n) ==
    IF n = 1 THEN DigitVal(s[p]) ELSE 10 * DigitVal(s[p]) + DigitVal(s[p + 1])

Err == [ok |-> FALSE, t |-> 0]

parse_from_str(time) ==
    LET hl == NumLen(time, 1)
        ml == NumLen(time, hl + 2)
    IN  IF hl = 0 THEN Err
        ELSE IF hl + 1 > Len(time) \/ time[hl + 1] # "." THEN Err
        ELSE IF ml = 0 THEN Err
        ELSE IF hl + 1 + ml < Len(time) THEN Err
        ELSE IF NumVal(time, 1, hl) > 23 \/ NumVal(time, hl + 2, ml) > 59 THEN Err
        ELSE [ok |-> TRUE, t |-> 60 * NumVal(time, 1, hl) + NumVal(time, hl + 2, ml)]

\* lines 81-88: both time tokens parse, so that neither unwrap() panics
TimesOk(line) ==
    /\ parse_from_str(with_mins(CapStart(line))).ok
    /\ parse_from_str(with_mins(CapEnd(line))).ok

\* a variant that clamps a negative duration to zero
LineDurationClamped(line) ==
    LET d == parse_from_str(with_mins(CapEnd(line))).t
                 - parse_from_str(with_mins(CapStart(line))).t
    IN  IF d < 0 THEN 0 ELSE d

\* line 89: end - start
LineDuration(line) ==
    parse_from_str(with_mins(CapEnd(line))).t
        - parse_from_str(with_mins(CapStart(line))).t

(***************************************************************************)
(* HumanDuration                                                           *)
(***************************************************************************)
\* a variant that rounds down
num_hours_floor(d) == d \div 60

\* Duration::num_hours: whole hours, truncated toward zero
num_hours(d) == IF d >= 0 THEN d \div 60 ELSE -((-d) \div 60)

num_minutes(d) == d

RECURSIVE Decimal(_)
Decimal(n) == IF n < 10 THEN <<DigitChar(n)>>
              ELSE Append(Decimal(n \div 10), DigitChar(n % 10))

\* "{:02}"
Pad2(n) == IF n < 10 THEN <<"0", DigitChar(n)>> ELSE Decimal(n)

\* Display for HumanDuration, and plain()
plain(d) == Pad2(Abs(num_hours(d))) \o <<":">> \o Pad2(Abs(num_minutes(d)) % 60)

\* a ColoredString: the text and its style
hd_line(d) == [text |-> plain(d), style |-> "bold green"]

hd_tag(d) == [text |-> plain(d), style |-> "bold blue"]

hd_total(d) == [text |-> plain(d), style |-> "bold white"]

hd_diff(d) ==
    IF d < 0 THEN [text |-> <<"-">> \o plain(d), style |-> "red"]
    ELSE [text |-> <<"+">> \o plain(d), style |-> "green"]

(***************************************************************************)
(* Inputs                                                                  *)
(***************************************************************************)
SeqsUpTo(S, n) == UNION {[1..m -> S] : m \in 0..n}

\* lines of a log: empty, blank, day headers, a near-header, and an entry
DayLines ==
    { <<>>, <<" ">>, <<"1", ".", "3">>, <<"1", ".", "3", " ", "x">>, <<"1", ".", "3", "0">>, <<"2", ".", "3">>, <<"8", "-", "9", " ", "a">> }

Dates == { <<"1", ".", "3">>, <<"2", ".", "3">> }

\* lines of a day block
EntryLines ==
    { <<"8", "-", "9", " ", "a">>,
      <<"9", "-", "1", "0", ".", "3", "0", " ", "[", "T", "]", " ", "a">>,
      <<"8", "-", "1", "5", ".", "3", "0", " ", " ", "[", "T", "]", "[", "U", "]">>,
      <<"1", "0", "-", "1", "1", " ", "-", "\"", "-">>,
      <<"1", "1", "-", "1", "2", " ", "-", "\"", "-", " ", "a">>,
      <<"9", "-", "1", "0", " ", " ", "b">>,
      <<"9", "-", "1", "0", "\t", "b">>,
      <<"1", "0", "-", "9", " ", "[", "U", "]">>,
      <<"9", "-", "1", "0", " ", "[", "T">>,
      <<"1", "2", "-", "1", "3", " ", " ", "-", "\"", "-">>,
      <<"2", "5", "-", "2", "6", " ", "a">>,
      <<"8", "-", "9", ".", "6", "0", " ", "[", "T", "]">>,
      <<".", "-", "9", " ", "a">>,
      <<"1", ".", "2", ".", "3", "-", "4", " ", "-", "\"", "-">>,
      <<"-", "-">>,
      <<"8", "-", "9">>,
      <<"1", ".", "3", " ", "x">> }

\* the day block of day 1.3 of tests/data/hours.txt, as the test's expected
\* listing gives it
Day13 ==
    << <<"1", ".", "3">>,
       <<"8", "-", "1", "0", " ", "[", "T", "A", "G", "-", "1", "]", " ", "d", "e", "s", "c">>,
       <<"1", "0", "-", "1", "0", ".", "3", "0", " ", "t", "a", "g", "l", "e", "s", "s", " ", "d", "e", "s", "c">>,
       <<"1", "0", ".", "3", "0", "-", "1", "2", " ", "[", "T", "A", "G", "-", "1", "]", " ", "d", "e", "s", "c", ",", " ", "a", "n", "d", " ", "s", "o", "m", "e", " ", "m", "o", "r", "e", " ", "d", "e", "s", "c">>,
       <<"1", "2", ".", "3", "0", "-", "1", "3", " ", "-", "\"", "-">>,
       <<"1", "3", "-", "1", "4", " ", "a", "n", "o", "t", "h", "e", "r", " ", "t", "a", "g", "l", "e", "s", "s", " ", "d", "e", "s", "c">>,
       <<"1", "4", "-", "1", "4", ".", "3", "0", " ", "[", "T", "A", "G", "-", "1", "]", " ", "d", "e", "s", "c">>,
       <<"1", "4", ".", "3", "0", "-", "1", "5", " ", "y", "e", "t", " ", "a", "n", "o", "t", "h", "e", "r", " ", "t", "a", "g", "l", "e", "s", "s", " ", "d", "e", "s", "c">>,
       <<"1", "6", "-", "1", "8", ".", "1", "5", " ", "[", "T", "A", "G", "-", "1", "]", " ", "d", "e", "s", "c">> >>

Range(f) == {f[i] : i \in DOMAIN f}

\* every line the inputs hold
AllLines == DayLines \union EntryLines \union Range(Day13)

(***************************************************************************)
(* process_line                                                            *)
(***************************************************************************)
\* an empty HashMap
EmptyMap == [t \in {} |-> <<>>]

\* lines 90-91: durations_by_tag.entry(tag).or_insert(Vec::new()).push(d)
PushDuration(dbt, tag, d) ==
    IF tag \in DOMAIN dbt
    THEN [dbt EXCEPT ![tag] = Append(@, d)]
    ELSE dbt @@ (tag :> <<d>>)

\* line 93: writeln!(writer, "{} {}", HumanDuration(duration).line(), &line)
ListingLine(d, line) == [text |-> hd_line(d), line |-> line]

\* lines 53-89 for every line of the inputs, computed once: whether LINE_RE
\* matches, the tag of lines 59-63, whether both times parse, and end - start
Captures ==
    [line \in AllLines |->
        IF ~IsMatch(line)
        THEN [is_match |-> FALSE, tag |-> <<>>, times_ok |-> FALSE, duration |-> 0]
        ELSE [is_match |-> TRUE, tag |-> RawTag(line), times_ok |-> TimesOk(line),
              duration |-> IF TimesOk(line) THEN LineDuration(line) ELSE 0]]

\* a variant that forgets the previous tag at a line that does not match
process_line_forgets(line, pt, dbt, w) ==
    LET c == Captures[line]
    IN  IF ~c.is_match
        THEN [prev_tag |-> None, durations_by_tag |-> dbt, out |-> w,
              panicked |-> FALSE]
        ELSE IF ~c.times_ok
        THEN [prev_tag |-> NextPrevTag(c.tag, pt), durations_by_tag |-> dbt,
              out |-> w, panicked |-> TRUE]
        ELSE [prev_tag |-> NextPrevTag(c.tag, pt),
              durations_by_tag |->
                  PushDuration(dbt, ResolveTag(c.tag, pt), c.duration),
              out |-> Append(w, ListingLine(c.duration, line)),
              panicked |-> FALSE]

\* process_line(line, prev_tag, durations_by_tag, writer): the values of
\* prev_tag, durations_by_tag and the writer after the call, and whether an
\* unwrap() of lines 84-88 panicked (the tag is resolved before the times
\* are parsed)
process_line(line, pt, dbt, w) ==
    LET c == Captures[line]
    IN  IF ~c.is_match
        THEN [prev_tag |-> pt, durations_by_tag |-> dbt, out |-> w,
              panicked |-> FALSE]
        ELSE IF ~c.times_ok
        THEN [prev_tag |-> NextPrevTag(c.tag, pt), durations_by_tag |-> dbt,
              out |-> w, panicked |-> TRUE]
        ELSE [prev_tag |-> NextPrevTag(c.tag, pt),
              durations_by_tag |->
                  PushDuration(dbt, ResolveTag(c.tag, pt), c.duration),
              out |-> Append(w, ListingLine(c.duration, line)),
              panicked |-> FALSE]

(***************************************************************************)
(* write_durations_collect_total                                           *)
(***************************************************************************)
\* a variant that sorts by b.0.cmp(a.0)
RECURSIVE SortTagsDescending(_)
SortTagsDescending(S) ==
    IF S = {} THEN <<>>
    ELSE LET m == CHOOSE x \in S : \A y \in S \ {x} : StrLess(y, x)
         IN  <<m>> \o SortTagsDescending(S \ {m})

\* lines 101-102: the tags sorted by a.0.cmp(b.0); the keys of a map are
\* distinct, so the sorted order is unique
RECURSIVE SortTags(_)
SortTags(S) ==
    IF S = {} THEN <<>>
    ELSE LET m == CHOOSE x \in S : \A y \in S \ {x} : StrLess(x, y)
         IN  <<m>> \o SortTags(S \ {m})

\* lines 106-109: the inner loop
RECURSIVE SumDurations(_)
SumDurations(ds) ==
    IF ds = <<>> THEN 0 ELSE ds[1] + SumDurations(Tail(ds))

\* line 111: writeln!(writer, "{} {}", HumanDuration(duration).tag(), tag);
\* duration is the loop's local, text what is written of it
SummaryLine(tag, d) == [text |-> hd_tag(d), tag |-> tag, duration |-> d]

\* a variant that keeps the last tag's total instead of adding it
RECURSIVE CollectTotalLast(_, _, _, _)
CollectTotalLast(dbt, sorted, total, w) ==
    IF sorted = <<>>
    THEN [duration_total |-> total, summary |-> w]
    ELSE LET tag == Head(sorted)
             duration == SumDurations(dbt[tag])
         IN  CollectTotalLast(dbt, Tail(sorted), duration,
                              Append(w, SummaryLine(tag, duration)))

\* lines 104-113: the outer loop over the sorted tags
RECURSIVE CollectTotal(_, _, _, _)
CollectTotal(dbt, sorted, total, w) ==
    IF sorted = <<>>
    THEN [duration_total |-> total, summary |-> w]
    ELSE LET tag == Head(sorted)
             duration == SumDurations(dbt[tag])
         IN  CollectTotal(dbt, Tail(sorted), total + duration,
                          Append(w, SummaryLine(tag, duration)))

write_durations_collect_total(dbt) ==
    CollectTotal(dbt, SortTags(DOMAIN dbt), 0, <<>>)

(***************************************************************************)
(* write_total and print_total_and_diff: each written line is the sequence *)
(* of the items that the format string joins with one space                *)
(***************************************************************************)
\* a variant with a day of eight hours
full_day_8h == 8 * 60

\* Duration::hours(7) + Duration::minutes(30)
full_day == 7 * 60 + 30

TotalLine(total) ==
    LET diff == total - full_day
    IN  IF diff = 0 THEN <<hd_total(total)>>
        ELSE <<hd_total(total), hd_diff(diff)>>

write_total(total) == <<TotalLine(total)>>

Separator == <<[text |-> <<"-", "-", "-", "-">>, style |-> "plain"]>>

\* output.rs lines 44-57, with the HumanDuration of output.rs (lines 7-38),
\* which is that of lib.rs
print_total_and_diff(total) ==
    LET day == 7 * 60 + 30
        diff == total - day
    IN  <<Separator,
          IF diff = 0 THEN <<hd_total(total)>>
          ELSE <<hd_total(total), hd_diff(diff)>> >>

(***************************************************************************)
(* The state machine: a caller runs the pipeline on a log and a date       *)
(* (find_and_collect_day, process_lines, write_durations_collect_total,    *)
(* then write_total or print_total_and_diff), or calls process_lines on a  *)
(* day block, or calls write_total / print_total_and_diff on a total.      *)
(***************************************************************************)
Init ==
    /\ prev_tag = None
    /\ durations_by_tag = EmptyMap
    /\ out = <<>>
    /\ summary = <<>>
    /\ report = <<>>
    /\ k = 1
    /\ \/ /\ call = "main"
          /\ pc = "find"
          /\ content \in SeqsUpTo(DayLines, MaxContent)
          /\ date \in Dates
          /\ lines = <<>>
          /\ duration_total = 0
       \/ /\ call = "process_lines"
          /\ pc = "process"
          /\ content = <<>>
          /\ date = <<>>
          /\ lines \in SeqsUpTo(EntryLines, MaxLines) \union {Day13}
          /\ duration_total = 0
       \/ /\ call = "write_total"
          /\ pc = "total"
          /\ content = <<>>
          /\ date = <<>>
          /\ lines = <<>>
          /\ duration_total \in (-MaxTotal)..MaxTotal

FindAndCollectDay ==
    /\ pc = "find"
    /\ lines' = find_and_collect_day(content, date)
    /\ pc' = "process"
    /\ UNCHANGED <<call, content, date, k, prev_tag, durations_by_tag, out,
                   summary, duration_total, report>>

\* one iteration of the loop of process_lines
ProcessLine ==
    /\ pc = "process"
    /\ k <= Len(lines)
    /\ LET r == process_line(lines[k], prev_tag, durations_by_tag, out)
       IN  /\ prev_tag' = r.prev_tag
           /\ durations_by_tag' = r.durations_by_tag
           /\ out' = r.out
           /\ pc' = IF r.panicked THEN "panic" ELSE "process"
           /\ k' = IF r.panicked THEN k ELSE k + 1
    /\ UNCHANGED <<call, content, date, lines, summary, duration_total, report>>

\* the loop of process_lines ends
ProcessLinesReturn ==
    /\ pc = "process"
    /\ k > Len(lines)
    /\ pc' = "summary"
    /\ UNCHANGED <<call, content, date, lines, k, prev_tag, durations_by_tag,
                   out, summary, duration_total, report>>

WriteDurationsCollectTotal ==
    /\ pc = "summary"
    /\ LET r == write_durations_collect_total(durations_by_tag)
       IN  /\ summary' = r.summary
           /\ duration_total' = r.duration_total
    /\ pc' = "total"
    /\ UNCHANGED <<call, content, date, lines, k, prev_tag, durations_by_tag,
                   out, report>>

WriteTotal ==
    /\ pc = "total"
    /\ report' = write_total(duration_total)
    /\ pc' = "done"
    /\ UNCHANGED <<call, content, date, lines, k, prev_tag, durations_by_tag,
                   out, summary, duration_total>>

PrintTotalAndDiff ==
    /\ pc = "total"
    /\ report' = print_total_and_diff(duration_total)
    /\ pc' = "done"
    /\ UNCHANGED <<call, content, date, lines, k, prev_tag, durations_by_tag,
                   out, summary, duration_total>>

Next ==
    \/ FindAndCollectDay
    \/ ProcessLine
    \/ ProcessLinesReturn
    \/ WriteDurationsCollectTotal
    \/ WriteTotal
    \/ PrintTotalAndDiff

Spec == Init /\ [][Next]_vars

(***************************************************************************)
(* Vocabulary of the properties                                            *)
(***************************************************************************)
Min(S) == CHOOSE x \in S : \A y \in S : x <= y

Max(S) == CHOOSE x \in S : \A y \in S : y <= x

\* the number of lines process_line has been called on
Processed == IF pc = "find" THEN 0 ELSE IF pc = "panic" THEN k ELSE k - 1

\* the line the next call of process_line handles
AtLine == pc = "process" /\ k <= Len(lines)

\* a line that starts with a date, or is a date: the header of its day
HeaderOf(line, d) ==
    \/ line = d
    \/ /\ Len(line) > Len(d)
       /\ \A i \in 1..Len(d) : line[i] = d[i]
       /\ line[Len(d) + 1] = " "

\* what find_and_collect_day is to return: from the first header up to the
\* first empty line after it, or the end
DayBlock(c, d) ==
    LET H == {i \in 1..Len(c) : HeaderOf(c[i], d)}
    IN  IF H = {} THEN <<>>
        ELSE LET h == Min(H)
                 E == {j \in (h + 1)..Len(c) : c[j] = <<>>}
                 e == IF E = {} THEN Len(c) + 1 ELSE Min(E)
             IN  SubSeq(c, h, e - 1)

\* the text of an entry line after the time range and the run of whitespace
\* that follows it (the time range of an entry holds no whitespace)
TextAfterSpaces(line) ==
    LET s == Min({i \in 1..Len(line) : line[i] \in Spaces})
        N == {i \in s..Len(line) : line[i] \notin Spaces}
    IN  IF N = {} THEN <<>> ELSE SubSeq(line, Min(N), Len(line))

\* the text begins with a bracketed token [...]
BeginsWithBracket(t) ==
    /\ t # <<>>
    /\ t[1] = "["
    /\ \E q \in 2..Len(t) : t[q] = "]"

\* its first bracketed token, up to the first ']'
FirstBracket(t) == SubSeq(t, 1, Min({q \in 2..Len(t) : t[q] = "]"}))

\* an entry whose tag text is, or is not, a carry-over marker
IsMarkerEntry(line) ==
    Captures[line].is_match /\ StartsWith(Captures[line].tag, Marker)

IsPlainEntry(line) ==
    Captures[line].is_match /\ ~StartsWith(Captures[line].tag, Marker)

PlainBefore(i) == {j \in 1..(i - 1) : IsPlainEntry(lines[j])}

\* the step records duration d under tag and nothing else
Recorded(tag, d) ==
    /\ DOMAIN durations_by_tag' = DOMAIN durations_by_tag \union {tag}
    /\ durations_by_tag'[tag] =
           (IF tag \in DOMAIN durations_by_tag
            THEN durations_by_tag[tag] ELSE <<>>) \o <<d>>
    /\ \A t \in DOMAIN durations_by_tag \ {tag} :
           durations_by_tag'[t] = durations_by_tag[t]

\* HH:MM of a magnitude of less than 100 hours
TwoDigits(n) == <<DigitChar(n \div 10), DigitChar(n % 10)>>

Clock(m) == TwoDigits(m \div 60) \o <<":">> \o TwoDigits(m % 60)

RECURSIVE SumOver(_, _)
SumOver(f, S) ==
    IF S = {} THEN 0
    ELSE LET x == CHOOSE y \in S : TRUE
         IN  f[x] + SumOver(f, S \ {x})

(***************************************************************************)
(* C1: find_and_collect_day returns the empty sequence when no line is the *)
(* date or starts with the date and one space; otherwise the lines from    *)
(* the first such line up to, and without, the first empty line after it,  *)
(* or up to the end.  A later header starts no second block.               *)
(***************************************************************************)
C1_DayBlock ==
    (call = "main" /\ pc # "find") => lines = DayBlock(content, date)

\* a block was returned from a log that holds the header again after the
\* block's empty line
C1_Witness ==
    /\ call = "main"
    /\ pc = "process"
    /\ Len(lines) >= 2
    /\ \E i, j, m \in 1..Len(content) :
           /\ i < j /\ j < m
           /\ HeaderOf(content[i], date)
           /\ content[j] = <<>>
           /\ HeaderOf(content[m], date)

(***************************************************************************)
(* C2: an entry whose tag text starts with the marker, handled while       *)
(* prev_tag holds a tag T, has its duration recorded under T and leaves    *)
(* prev_tag at T; so every line of a run of consecutive carry-over lines   *)
(* is recorded under the tag of the last non-marker entry before the run.  *)
(***************************************************************************)
C2_CarryOver ==
    [][(AtLine /\ IsMarkerEntry(lines[k]) /\ Captures[lines[k]].times_ok
            /\ prev_tag # None)
        => /\ Recorded(prev_tag[1], Captures[lines[k]].duration)
           /\ prev_tag' = prev_tag
           /\ (/\ PlainBefore(k) # {}
               /\ \A j \in (Max(PlainBefore(k)) + 1)..(k - 1) :
                      IsMarkerEntry(lines[j]))
              => Recorded(Captures[lines[Max(PlainBefore(k))]].tag,
                          Captures[lines[k]].duration)]_vars

\* two carry-over lines in a row were recorded under the tag before them
C2_Witness ==
    /\ pc = "process"
    /\ k = 4
    /\ IsPlainEntry(lines[1])
    /\ IsMarkerEntry(lines[2])
    /\ IsMarkerEntry(lines[3])
    /\ prev_tag = Some(Captures[lines[1]].tag)
    /\ DOMAIN durations_by_tag = {Captures[lines[1]].tag}
    /\ Len(durations_by_tag[Captures[lines[1]].tag]) = 3

(***************************************************************************)
(* C3: for an entry without a bracketed tag, the tag the duration is       *)
(* recorded under, and the new prev_tag, is the text after the time range  *)
(* and the first run of whitespace; it never starts with whitespace.       *)
(***************************************************************************)
C3_TaglessTag ==
    [][(AtLine /\ Captures[lines[k]].is_match /\ Captures[lines[k]].times_ok
            /\ ~BeginsWithBracket(TextAfterSpaces(lines[k]))
            /\ ~StartsWith(TextAfterSpaces(lines[k]), Marker))
        => /\ prev_tag' = Some(TextAfterSpaces(lines[k]))
           /\ Recorded(TextAfterSpaces(lines[k]), Captures[lines[k]].duration)
           /\ (prev_tag'[1] = <<>> \/ prev_tag'[1][1] \notin Spaces)]_vars

(***************************************************************************)
(* C4: a line with the shape of an entry whose time token is not a valid   *)
(* hour.minute value is skipped: nothing is listed or recorded, prev_tag   *)
(* is unchanged, the remaining lines are processed, the process does not   *)
(* fail.                                                                   *)
(***************************************************************************)
C4_InvalidTimeSkipped ==
    [][(AtLine /\ Captures[lines[k]].is_match /\ ~Captures[lines[k]].times_ok)
        => /\ pc' = "process"
           /\ k' = k + 1
           /\ UNCHANGED <<prev_tag, durations_by_tag, out>>]_vars

(***************************************************************************)
(* C5: for an entry whose text after the time range and its whitespace     *)
(* begins with a bracketed token, the tag is that first token with its     *)
(* brackets, ending at the first ']', whatever follows and however much    *)
(* whitespace precedes it.                                                 *)
(***************************************************************************)
C5_BracketTag ==
    [][(AtLine /\ Captures[lines[k]].is_match
            /\ BeginsWithBracket(TextAfterSpaces(lines[k])))
        => /\ prev_tag' = Some(FirstBracket(TextAfterSpaces(lines[k])))
           /\ Captures[lines[k]].times_ok
              => Recorded(FirstBracket(TextAfterSpaces(lines[k])),
                          Captures[lines[k]].duration)]_vars

\* an entry with two whitespace characters before its bracket and a second
\* bracketed token after it was recorded under the first token
C5_Witness ==
    /\ pc = "process"
    /\ k > 1
    /\ Captures[lines[k - 1]].is_match
    /\ Captures[lines[k - 1]].times_ok
    /\ BeginsWithBracket(TextAfterSpaces(lines[k - 1]))
    /\ Len(TextAfterSpaces(lines[k - 1]))
           > Len(FirstBracket(TextAfterSpaces(lines[k - 1])))
    /\ Len(lines[k - 1]) - Len(TextAfterSpaces(lines[k - 1]))
           > Min({i \in 1..Len(lines[k - 1]) : lines[k - 1][i] \in Spaces})
    /\ prev_tag = Some(FirstBracket(TextAfterSpaces(lines[k - 1])))
    /\ prev_tag[1] \in DOMAIN durations_by_tag

(***************************************************************************)
(* C6: processing a line that does not match the entry pattern changes     *)
(* neither prev_tag, nor the map, nor the listing; so a carry-over line    *)
(* after non-matching lines is recorded under the tag of the last          *)
(* non-marker entry before them.                                           *)
(***************************************************************************)
C6_NoMatchNoChange ==
    [][/\ (AtLine /\ ~Captures[lines[k]].is_match)
          => /\ UNCHANGED <<prev_tag, durations_by_tag, out>>
             /\ pc' = "process"
       /\ (AtLine /\ IsMarkerEntry(lines[k]) /\ Captures[lines[k]].times_ok
              /\ k > 1 /\ ~Captures[lines[k - 1]].is_match
              /\ PlainBefore(k) # {})
          => /\ Recorded(Captures[lines[Max(PlainBefore(k))]].tag,
                         Captures[lines[k]].duration)
             /\ prev_tag' = Some(Captures[lines[Max(PlainBefore(k))]].tag)]_vars

\* a carry-over line after a non-matching line was recorded under the tag
\* of the entry before that line
C6_Witness ==
    /\ pc = "process"
    /\ k = 4
    /\ IsPlainEntry(lines[1])
    /\ ~Captures[lines[2]].is_match
    /\ IsMarkerEntry(lines[3])
    /\ prev_tag = Some(Captures[lines[1]].tag)
    /\ Len(out) = 2
    /\ Len(durations_by_tag[Captures[lines[1]].tag]) = 2

(***************************************************************************)
(* C7 as stated: after process_lines has processed any lines, starting     *)
(* with no previous tag, no key of the map starts with the marker and      *)
(* prev_tag never holds a text starting with the marker.                   *)
(***************************************************************************)
TagsHeld ==
    DOMAIN durations_by_tag \union (IF prev_tag = None THEN {} ELSE {prev_tag[1]})

C7_NoMarkerKey == \A t \in TagsHeld : ~StartsWith(t, Marker)

(***************************************************************************)
(* C7, amended: a key of the map, or prev_tag, starts with the marker only *)
(* when the first matching entry of the block is a carry-over line, and it *)
(* is then the tag text of that first entry; when the first matching entry *)
(* is not a carry-over line, no key and no prev_tag starts with the marker.*)
(***************************************************************************)
EntriesProcessed == {j \in 1..Processed : Captures[lines[j]].is_match}

C7_MarkerKeyOnlyFirst ==
    \A t \in TagsHeld :
        StartsWith(t, Marker)
            => /\ EntriesProcessed # {}
               /\ t = Captures[lines[Min(EntriesProcessed)]].tag

\* a block whose first entry is no carry-over line and which holds a
\* carry-over line was processed, and the marker is no key
C7_Witness ==
    /\ pc = "summary"
    /\ EntriesProcessed # {}
    /\ IsPlainEntry(lines[Min(EntriesProcessed)])
    /\ \E j \in EntriesProcessed : IsMarkerEntry(lines[j])
    /\ Len(out) >= 2
    /\ \A t \in TagsHeld : ~StartsWith(t, Marker)

(***************************************************************************)
(* C8 as stated: for the day block of day 1.3 the pipeline gives a grand   *)
(* total of 08:45, 06:45 for [TAG-1], and a final diff of +01:00.          *)
(***************************************************************************)
LastLine == report[Len(report)]

Day13Reported(total, tag1, diff) ==
    /\ LastLine[1].text = total
    /\ \E i \in 1..Len(summary) :
           summary[i].tag = <<"[", "T", "A", "G", "-", "1", "]">> /\ summary[i].text.text = tag1
    /\ Len(LastLine) = 2
    /\ LastLine[2].text = diff

SevenThirty == 7 * 60 + 30

C10_GrandTotal ==
    (pc \in {"total", "done"} /\ call # "write_total")
        => /\ duration_total
                  = SumOver([i \in 1..Len(summary) |-> summary[i].duration],
                            1..Len(summary))
           /\ duration_total
                  = SumOver([t \in DOMAIN durations_by_tag |->
                                SumOver(durations_by_tag[t],
                                        1..Len(durations_by_tag[t]))],
                            DOMAIN durations_by_tag)
           /\ (DOMAIN durations_by_tag = {} => duration_total = 0)
           /\ duration_total
                  = SumOver([i \in 1..Len(out) |-> Captures[out[i].line].duration],
                            1..Len(out))

\* the total of a map of two tags, one of them with two durations
C10_Witness ==
    /\ pc = "total"
    /\ call = "process_lines"
    /\ Cardinality(DOMAIN durations_by_tag) = 2
    /\ \E t \in DOMAIN durations_by_tag : Len(durations_by_tag[t]) = 2
    /\ Len(out) = 3
    /\ duration_total > 0

(***************************************************************************)
(* C11: for an entry whose end time is earlier than its start time the     *)
(* recorded duration is end minus start, a negative value: not rejected,   *)
(* not clamped to zero, not wrapped by 24 hours.  It is added as it is to  *)
(* its tag's total and to the grand total, which can so be negative.       *)
(***************************************************************************)
\* the time tokens of an entry line: before and after the first '-', up to
\* the first whitespace
StartToken(line) ==
    SubSeq(line, 1, Min({i \in 1..Len(line) : line[i] = "-"}) - 1)

EndToken(line) ==
    SubSeq(line, Min({i \in 1..Len(line) : line[i] = "-"}) + 1,
           Min({i \in 1..Len(line) : line[i] \in Spaces}) - 1)

RECURSIVE DecValue(_)
DecValue(ds) ==
    IF ds = <<>> THEN 0
    ELSE 10 * DecValue(SubSeq(ds, 1, Len(ds) - 1)) + DigitVal(ds[Len(ds)])

\* the minutes since midnight a valid token H, H.M, HH.M or HH.MM stands for
TokenMinutes(tok) ==
    LET D == {i \in 1..Len(tok) : tok[i] = "."}
    IN  IF D = {} THEN 60 * DecValue(tok)
        ELSE 60 * DecValue(SubSeq(tok, 1, Min(D) - 1))
                 + DecValue(SubSeq(tok, Min(D) + 1, Len(tok)))

\* end minus start of an entry line
EndMinusStart(line) == TokenMinutes(EndToken(line)) - TokenMinutes(StartToken(line))

C11_NegativeDuration ==
    [][/\ (AtLine /\ Captures[lines[k]].is_match /\ Captures[lines[k]].times_ok
              /\ TokenMinutes(EndToken(lines[k]))
                     < TokenMinutes(StartToken(lines[k])))
          => /\ \E t \in DOMAIN durations_by_tag' :
                    Recorded(t, EndMinusStart(lines[k]))
             /\ Len(out') = Len(out) + 1
             /\ out'[Len(out')].line = lines[k]
             /\ pc' = "process"
       /\ pc = "summary"
          => /\ \A i \in 1..Len(summary') :
                    summary'[i].duration
                        = SumOver(durations_by_tag[summary'[i].tag],
                                  1..Len(durations_by_tag[summary'[i].tag]))
             /\ duration_total'
                    = SumOver([i \in 1..Len(out) |-> EndMinusStart(out[i].line)],
                              1..Len(out))]_vars

\* a tag total and the grand total are negative
C11_Witness ==
    /\ pc = "total"
    /\ call = "process_lines"
    /\ duration_total < 0
    /\ \E i \in 1..Len(summary) : summary[i].duration < 0
    /\ \E i \in 1..Len(out) : EndMinusStart(out[i].line) < 0

(***************************************************************************)
(* C12: the per-tag report lists every tag of the map exactly once, in     *)
(* strictly ascending order of tag text, whatever the order in which the   *)
(* tags were first seen; each listed value is the sum of the durations     *)
(* recorded under that tag.                                                *)
(***************************************************************************)
\* a comes before b: a is a proper prefix of b, or they differ first at a
\* byte that is smaller in a
RECURSIVE TextBefore(_, _)
TextBefore(a, b) ==
    IF b = <<>> THEN FALSE
    ELSE IF a = <<>> THEN TRUE
    ELSE IF a[1] = b[1] THEN TextBefore(Tail(a), Tail(b))
    ELSE ByteOf(a[1]) < ByteOf(b[1])

C12_SortedSummary ==
    (pc \in {"total", "done"} /\ call # "write_total")
        => /\ {summary[i].tag : i \in 1..Len(summary)} = DOMAIN durations_by_tag
           /\ Len(summary) = Cardinality(DOMAIN durations_by_tag)
           /\ \A i \in 1..(Len(summary) - 1) :
                  TextBefore(summary[i].tag, summary[i + 1].tag)
           /\ \A i \in 1..Len(summary) :
                  /\ summary[i].duration
                         = SumOver(durations_by_tag[summary[i].tag],
                                   1..Len(durations_by_tag[summary[i].tag]))
                  /\ summary[i].text.text = plain(summary[i].duration)

\* three tags are listed, and the tag seen first in the block is listed last
C12_Witness ==
    /\ pc = "total"
    /\ call = "process_lines"
    /\ Len(summary) = 3
    /\ Len(out) = 3
    /\ summary[3].tag = Captures[out[1].line].tag
    /\ summary[1].tag = Captures[out[2].line].tag

(***************************************************************************)
(* C13: once the header of the requested day has matched, only a line of   *)
(* zero characters or the end of input ends the collection: a line of      *)
(* whitespace, the header of another day and a second header of the same   *)
(* date are collected.  So without an empty line before the next day, that *)
(* day's header and entries are in the block and process_lines counts the  *)
(* entries in the requested day's tag totals and grand total.              *)
(***************************************************************************)
\* the position of the first header of the date in the content
FirstHeader == Min({i \in 1..Len(content) : HeaderOf(content[i], date)})

\* the positions from the first header on that no line of zero characters
\* precedes
Reached ==
    {j \in FirstHeader..Len(content) :
        \A i \in (FirstHeader + 1)..j : Len(content[i]) > 0}

\* the reached lines that are entries
ReachedEntries ==
    {j \in Reached : Captures[content[j]].is_match /\ Captures[content[j]].times_ok}

C13_OnlyEmptyLineEnds ==
    (call = "main" /\ pc # "find"
         /\ \E i \in 1..Len(content) : HeaderOf(content[i], date))
        => /\ \A j \in Reached :
                  /\ Len(lines) >= j - FirstHeader + 1
                  /\ lines[j - FirstHeader + 1] = content[j]
           /\ pc \in {"summary", "total", "done"}
                  => /\ Len(out) = Cardinality(ReachedEntries)
                     /\ \A t \in DOMAIN durations_by_tag :
                            Len(durations_by_tag[t])
                                = Cardinality({j \in ReachedEntries :
                                                  Captures[content[j]].tag = t})
           /\ pc \in {"total", "done"}
                  => duration_total
                         = SumOver([j \in ReachedEntries |-> EndMinusStart(content[j])],
                                   ReachedEntries)

\* the block of the requested day holds the header of the other day and an
\* entry after it, and the totals count that entry
C13_Witness ==
    /\ call = "main"
    /\ pc = "total"
    /\ \E m, e \in 1..Len(lines) :
           /\ 1 < m /\ m < e
           /\ \E d \in Dates \ {date} : HeaderOf(lines[m], d)
           /\ Captures[lines[e]].is_match
           /\ \E b \in 2..(m - 1) : Captures[lines[b]].is_match
    /\ Len(out) = 2
    /\ duration_total = 2 * 60
    /\ \E t \in DOMAIN durations_by_tag : Len(durations_by_tag[t]) = 2

====
